---- MODULE Spec2Model ----
(***************************************************************************)
(* A model of canopy's Cohere adapter (src/canopy/llm/cohere.py) and of    *)
(* the native query generator built on it                                  *)
(* (src/canopy/chat_engine/query_generator/cohere.py).                     *)
(*                                                                         *)
(* One adapter object (model_name, default_model_params, a vendor client)  *)
(* is driven by one caller.  The vendor client is opaque: every request    *)
(* it receives is recorded in `calls`, and what it answers (an error, a    *)
(* response, an event stream) is a nondeterministic choice recorded in     *)
(* `backend`.                                                              *)
(*                                                                         *)
(* Encodings.  A Python dict is a function over its string keys.  An       *)
(* Optional value is a sequence of length <= 1: None is <<>> and a value   *)
(* v is <<v>>.  A generated text is a sequence of tokens, so that          *)
(* concatenation is \o.  created=int(time.time()) is left out of the       *)
(* response objects: it is the wall clock.                                 *)
(***************************************************************************)
EXTENDS Integers, Sequences, FiniteSets, TLC

VARIABLES
    model_name,            \* self.model_name
    default_model_params,  \* self.default_model_params
    op,                    \* the operation called last
    args,                  \* the arguments of that call
    pc,                    \* "idle", "retry" (inside the retry wrapper) or "done"
    attempt_number,        \* executions of the operation's body so far
    calls,                 \* requests the vendor client received in this call
    backend,               \* what the vendor client answered to each request
    raised,                \* the exception each failed execution raised
    outcome,               \* what the caller got
    vendor,                \* the vendor event stream behind a returned iterator
    iterator,              \* "none", "suspended" or "exhausted": that iterator
    pos,                   \* events of `vendor` read so far
    chunks,                \* chunks the returned iterator has yielded so far
    query_generator        \* the CohereQueryGenerator, once constructed

vars == <<model_name, default_model_params, op, args, pc, attempt_number,
          calls, backend, raised, outcome, vendor, iterator, pos, chunks,
          query_generator>>

(***************************************************************************)
(* Bounds of the model.                                                    *)
(***************************************************************************)
MaxHist == 2        \* messages in a chat history
MaxSnippets == 2    \* snippets in a structured context
MaxTokens == 2      \* largest max_tokens a caller asks for
MaxEvents == 3      \* events in a vendor stream
MaxQueries == 2     \* entries of response.search_queries
MaxText == 2        \* tokens in a non-streamed response text

SeqsUpTo(S, n) == UNION {[1..k -> S] : k \in 0..n}

None == <<>>
Some(v) == <<v>>
EmptyDict == <<>>

(***************************************************************************)
(* Canonical values.                                                       *)
(***************************************************************************)
Roles == {"user", "assistant", "system"}
Contents == {"", "a", "b"}
Message == [role : Roles, content : Contents]
Histories == SeqsUpTo(Message, MaxHist)

Snippet == [source : {"http://www.example.com/document", "http://www.example.com/other"},
            text : {"Document text"}]
NoContext == [kind |-> "none", snippets |-> <<>>]
\* A ContextContent that offers to_text() only (tests, UnsupportedContextContent).
UnsupportedContext == [kind |-> "unsupported", snippets |-> <<>>]
\* A StuffingContextContent: query results holding {source, text} snippets.
StuffingContext(s) == [kind |-> "stuffing", snippets |-> s]
Contexts == {NoContext, UnsupportedContext}
                \cup {StuffingContext(s) : s \in SeqsUpTo(Snippet, MaxSnippets)}

\* Provider-specific generation parameters: the constructor's **kwargs and a
\* call's model_params.
TemperatureDicts == {EmptyDict} \cup {("temperature" :> v) : v \in {1, 2}}
MaxTokensDicts == {EmptyDict} \cup {("max_tokens" :> v) : v \in 1..MaxTokens}
ConnectorsDicts == {EmptyDict} \cup {("connectors" :> v) : v \in {<<>>, <<"web-search">>}}
ParamDicts == {t @@ m @@ c : t \in TemperatureDicts, m \in MaxTokensDicts,
                              c \in ConnectorsDicts}

\* Generated text: a sequence of tokens.
Tokens == {"x", "y"}

(***************************************************************************)
(* Exceptions.                                                             *)
(***************************************************************************)
Error(t, m) == [type |-> t, message |-> m]
\* What the vendor client raises on a failed request.
BackendErrors == {Error("CohereAPIError", "API call failed"),
                  Error("CohereConnectionError", "connection failed")}

(***************************************************************************)
(* CohereLLM.map_messages                                                  *)
(***************************************************************************)
\* Mutant: no message is skipped.
SkipsNothing(message) == FALSE

\* `if not message.content: continue`
SkipsMessage(message) == message.content = ""

\* Mutant: every role is mapped to USER.
MapsAllToUser(role) == "USER"

MapRole(role) == IF role = "assistant" THEN "CHATBOT" ELSE "USER"

MapMessage(message) == [role |-> MapRole(message.role), message |-> message.content]

\* Mutant: every message is mapped, the empty ones too.
MapsEveryMessage(messages) == [i \in 1..Len(messages) |-> MapMessage(messages[i])]

RECURSIVE map_messages(_)
map_messages(messages) ==
    IF messages = <<>> THEN <<>>
    ELSE IF SkipsMessage(Head(messages)) THEN map_messages(Tail(messages))
    ELSE <<MapMessage(Head(messages))>> \o map_messages(Tail(messages))

(***************************************************************************)
(* dict helpers                                                            *)
(***************************************************************************)
\* a.update(b), as a new dict
Update(a, b) == [k \in DOMAIN a \cup DOMAIN b |-> IF k \in DOMAIN b THEN b[k] ELSE a[k]]
\* d.pop(key, None): the value popped and the dict that is left
PopValue(d, key) == IF key \in DOMAIN d THEN Some(d[key]) ELSE None
PopRest(d, key) == [k \in DOMAIN d \ {key} |-> d[k]]
\* Mutant: chat_history=messages, the current turn included.
WholeList(s) == s

\* messages[:-1]
AllButLast(s) == SubSeq(s, 1, Len(s) - 1)
\* messages[-1]
Last(s) == s[Len(s)]

(***************************************************************************)
(* What the vendor client answers to a request.                            *)
(***************************************************************************)
Raises(e) == [kind |-> "error", error |-> e]

\* A non-streamed chat response: response.id, response.text, response.token_count.
TokenCount == [prompt_tokens |-> 1, response_tokens |-> 1, billed_tokens |-> 2]
ChatAnswer(text, token_count) ==
    [kind |-> "response", id |-> "resp-1", text |-> text, token_count |-> token_count]

\* A streamed chat response: the events of the vendor stream.
TextGeneration(text) == [event_type |-> "text-generation", id |-> "gen-1", text |-> text]
StreamStart == [event_type |-> "stream-start", id |-> "gen-1", text |-> <<>>]
StreamEnd == [event_type |-> "stream-end", id |-> "gen-1", text |-> <<>>]
StreamAnswer(events) == [kind |-> "stream", events |-> events]

\* A search-queries-only response: response.search_queries, a list of dicts.
QueriesAnswer(search_queries) == [kind |-> "queries", search_queries |-> search_queries]

(***************************************************************************)
(* One execution of an operation's body is a record `run`:                 *)
(*   sent    - the requests it handed to the vendor client (none or one)   *)
(*   answers - what the client answered to them                            *)
(*   out     - how it ended: [kind "raise", error], [kind "return", value] *)
(*             or [kind "stream", events] (a lazy iterator was returned)   *)
(***************************************************************************)
RaiseOut(e) == [kind |-> "raise", error |-> e]
ReturnOut(v) == [kind |-> "return", value |-> v]
StreamOut(events) == [kind |-> "stream", events |-> events]
Run(sent, answers, out) == [sent |-> sent, answers |-> answers, out |-> out]

(***************************************************************************)
(* CohereLLM.chat_completion                                               *)
(***************************************************************************)
\* model_params_dict = deepcopy(self.default_model_params)
\* model_params_dict.update(model_params or {})
MergedModelParams(defaults, model_params) == Update(defaults, model_params)

\* Mutant: no deepcopy, the update and the pop act on the stored defaults.
UpdatesStoredDefaults(defaults, model_params) ==
    PopRest(Update(defaults, model_params), "connectors")

\* self.default_model_params once the call is over: the update was made on a
\* deep copy, so the stored defaults are what they were.
DefaultsAfterCall(defaults, model_params) == defaults

\* connectors=[{"id": connector} for connector in connectors] if connectors else None
ConnectorsField(connectors) ==
    IF connectors # None /\ connectors[1] # <<>>
    THEN Some([i \in 1..Len(connectors[1]) |-> [id |-> connectors[1][i]]])
    ELSE None

\* The keyword arguments the call to self._client.chat spells out.
ChatKeywords(name, a, messages, connectors) ==
    [model |-> name,
     message |-> Last(messages).message,
     chat_history |-> AllButLast(messages),
     preamble_override |-> a.system_prompt,
     stream |-> a.stream,
     connectors |-> ConnectorsField(connectors),
     max_tokens |-> a.max_tokens]

\* Mutant: the chunk is built without the event's text.
ChunkWithoutText(name, event) ==
    [id |-> event.id,
     object |-> "chat.completion.chunk",
     model |-> name,
     choices |-> <<[index |-> 0,
                    delta |-> [content |-> <<>>, function_call |-> None,
                               role |-> "assistant", tool_calls |-> None],
                    finish_reason |-> None]>>]

\* The streamed chunk made of one text-generation event.
StreamingChatChunk(name, event) ==
    [id |-> event.id,
     object |-> "chat.completion.chunk",
     model |-> name,
     choices |-> <<[index |-> 0,
                    delta |-> [content |-> event.text, function_call |-> None,
                               role |-> "assistant", tool_calls |-> None],
                    finish_reason |-> None]>>]

\* Mutant: the terminal event yields a chunk too.
YieldsOnTerminal(event) == event.event_type \in {"text-generation", "stream-end"}

\* Mutant: every event yields a chunk.
YieldsAlways(event) == TRUE

\* `if chunk.event_type != "text-generation": continue`
YieldsChunk(event) == event.event_type = "text-generation"

\* Mutant: the events are read into a list before the call returns.
ReadsAllAtCall(events) == Len(events)

\* `return streaming_iterator(response)`: a generator function, none of whose
\* body has run, so no event has been read, when the call returns.
ReadAtCall(events) == 0

\* Mutant: the message is built without the response's text.
EmptyAssistantMessage(response) == [role |-> "assistant", content |-> <<>>]

\* "message": {"role": "assistant", "content": response.text}
AssistantMessage(response) == [role |-> "assistant", content |-> response.text]

\* The ChatResponse made of a non-streamed response.
ChatResponse(name, response) ==
    [id |-> response.id,
     object |-> "chat.completion",
     model |-> name,
     choices |-> <<[index |-> 0,
                    message |-> AssistantMessage(response),
                    finish_reason |-> "stop"]>>,
     usage |-> [prompt_tokens |-> response.token_count["prompt_tokens"],
                completion_tokens |-> response.token_count["response_tokens"],
                total_tokens |-> response.token_count["billed_tokens"]]]

\* The body of chat_completion, the vendor client answering `answer` if asked.
chat_completion(name, defaults, a, answer) ==
    LET merged == MergedModelParams(defaults, a.model_params)
        connectors == PopValue(merged, "connectors")
        model_params_dict == PopRest(merged, "connectors")
        messages == map_messages(a.chat_history)
    IN  IF messages = <<>>
        THEN Run(<<>>, <<>>, RaiseOut(Error("CohereAPIError", "No message provided")))
        ELSE LET keywords == ChatKeywords(name, a, messages, connectors)
                 request == keywords @@ model_params_dict
             IN  IF DOMAIN keywords \cap DOMAIN model_params_dict # {}
                 THEN \* a keyword given twice: Python raises before the call
                      Run(<<>>, <<>>,
                          RaiseOut(Error("TypeError", "multiple values for keyword argument")))
                 ELSE IF answer.kind = "error"
                 THEN Run(<<request>>, <<answer>>, RaiseOut(answer.error))
                 ELSE IF a.stream
                 THEN Run(<<request>>, <<answer>>, StreamOut(answer.events))
                 ELSE IF {"prompt_tokens", "response_tokens", "billed_tokens"}
                             \subseteq DOMAIN answer.token_count
                 THEN Run(<<request>>, <<answer>>, ReturnOut(ChatResponse(name, answer)))
                 ELSE Run(<<request>>, <<answer>>, RaiseOut(Error("KeyError", "token_count")))

(***************************************************************************)
(* CohereLLM.generate_search_queries and its retry decorator               *)
(***************************************************************************)
MaxAttempts == 3

\* Mutant: the retry decorator is on chat_completion too.
StopAfterAttemptEverywhere(operation) == MaxAttempts

\* Mutant: the decorator stops one attempt early.
StopsOneEarly(operation) ==
    IF operation = "generate_search_queries" THEN MaxAttempts - 1 ELSE 1

\* stop=stop_after_attempt(3) on generate_search_queries; chat_completion
\* carries no decorator, so its body runs once.
StopAfterAttempt(operation) ==
    IF operation = "generate_search_queries" THEN MaxAttempts ELSE 1

\* Mutant: reraise is left at its default.
ReraiseOff == FALSE

\* reraise=True
Reraise == TRUE

\* What the caller gets when the last allowed execution raised `e`.
FinalError(operation, e) ==
    IF operation = "generate_search_queries" /\ ~Reraise
    THEN Error("RetryError", e.type)
    ELSE e

\* The keyword arguments of the search-queries-only request.
QueryKeywords(name, messages) ==
    [model |-> name,
     message |-> Last(messages).message,
     chat_history |-> AllButLast(messages),
     stream |-> FALSE,
     search_queries_only |-> TRUE]

\* The body of generate_search_queries, the vendor client answering `answer`.
generate_search_queries(name, a, answer) ==
    LET messages == map_messages(a.chat_history)
    IN  IF messages = <<>>
        THEN \* messages[-1] of an empty list
             Run(<<>>, <<>>, RaiseOut(Error("IndexError", "list index out of range")))
        ELSE LET request == QueryKeywords(name, messages)
             IN  IF answer.kind = "error"
                 THEN Run(<<request>>, <<answer>>, RaiseOut(answer.error))
                 ELSE IF \E i \in 1..Len(answer.search_queries) :
                             "text" \notin DOMAIN answer.search_queries[i]
                 THEN Run(<<request>>, <<answer>>, RaiseOut(Error("KeyError", "text")))
                 ELSE Run(<<request>>, <<answer>>,
                          ReturnOut([i \in 1..Len(answer.search_queries) |->
                                         answer.search_queries[i]["text"]]))

(***************************************************************************)
(* CohereLLM.enforced_function_call                                        *)
(***************************************************************************)
\* `return NotImplementedError()`: the exception object is built and returned.
enforced_function_call ==
    Run(<<>>, <<>>, ReturnOut(Error("NotImplementedError", "")))

(***************************************************************************)
(* CohereQueryGenerator                                                    *)
(***************************************************************************)
\* What a caller may pass as llm: nothing (None), this model's CohereLLM, or
\* an adapter of another family, which has no generate_search_queries.
LLMArguments == {"None", "CohereLLM", "AzureOpenAILLM"}

NoQueryGenerator == [constructed |-> FALSE, llm |-> "None"]

\* __init__: self._llm = llm or self._DEFAULT_COMPONENTS["llm"]().  Whatever
\* llm is passed is stored; nothing is asked of it.
CohereQueryGenerator(llm) ==
    [constructed |-> TRUE, llm |-> IF llm = "None" THEN "default CohereLLM" ELSE llm]

\* Whether self._llm has a generate_search_queries method.
HasSearchQueries(generator) == generator.llm \in {"CohereLLM", "default CohereLLM"}

\* self._llm.model_name: the default adapter is CohereLLM(), whose model_name
\* is the constructor's default.
GeneratorModelName(generator, name) ==
    IF generator.llm = "default CohereLLM" THEN "command-nightly" ELSE name

\* Mutant: the queries come back in reverse.
ReversedQueryList(queries) ==
    [i \in 1..Len(queries) |-> [text |-> queries[Len(queries) + 1 - i]]]

\* [Query(text=query) for query in queries]
QueryList(queries) == [i \in 1..Len(queries) |-> [text |-> queries[i]]]

\* The adapter method an operation runs: generate delegates to
\* self._llm.generate_search_queries.
Callee(operation) ==
    IF operation = "generate" THEN "generate_search_queries" ELSE operation

(***************************************************************************)
(* The state machine.  The inputs a caller may pass and the answers the    *)
(* vendor client may give are drawn from a record `D` of finite sets:      *)
(*   chat_args, histories - arguments of chat_completion and of            *)
(*                          generate_search_queries                        *)
(*   errors, responses, streams, queries - answers of the vendor client    *)
(***************************************************************************)
Body(operation, name, defaults, a, answer) ==
    IF Callee(operation) = "chat_completion"
    THEN chat_completion(name, defaults, a, answer)
    ELSE generate_search_queries(name, a, answer)

\* The answers the vendor client may give to this call's request.
Answers(operation, a, D) ==
    {Raises(e) : e \in D.errors}
        \cup (IF Callee(operation) = "generate_search_queries" THEN D.queries
              ELSE IF a.stream THEN D.streams ELSE D.responses)

\* Mutant: with stream=True the request is left to the first pull.
SentAtFirstPull(run) == IF run.out.kind = "stream" THEN <<>> ELSE run.sent

\* The requests the vendor client has received when the body is over:
\* self._client.chat(...) is called in the body of chat_completion, streaming
\* or not, and streaming_iterator only reads the response it is handed.
SentAtCall(run) == run.sent

\* The n-th execution of the body ended as `run`: the caller gets its result,
\* or its exception once the retry wrapper (if any) has stopped; else the
\* wrapper goes for another execution.
Settle(operation, a, n, run, calls0, backend0, raised0) ==
    /\ op' = operation
    /\ args' = a
    /\ attempt_number' = n
    /\ calls' = calls0 \o SentAtCall(run)
    /\ backend' = backend0 \o run.answers
    /\ model_name' = model_name
    /\ query_generator' = query_generator
    /\ default_model_params' =
           IF operation = "chat_completion"
           THEN DefaultsAfterCall(default_model_params, a.model_params)
           ELSE default_model_params
    /\ chunks' = <<>>
    /\ IF run.out.kind = "raise"
       THEN /\ raised' = Append(raised0, run.out.error)
            /\ vendor' = <<>>
            /\ iterator' = "none"
            /\ pos' = 0
            /\ IF n < StopAfterAttempt(Callee(operation))
               THEN pc' = "retry" /\ outcome' = [kind |-> "pending"]
               ELSE pc' = "done"
                    /\ outcome' = RaiseOut(FinalError(Callee(operation), run.out.error))
       ELSE /\ raised' = raised0
            /\ pc' = "done"
            /\ IF run.out.kind = "stream"
               THEN /\ vendor' = run.out.events
                    /\ iterator' = "suspended"
                    /\ pos' = ReadAtCall(run.out.events)
                    /\ outcome' = [kind |-> "stream"]
               ELSE /\ vendor' = <<>>
                    /\ iterator' = "none"
                    /\ pos' = 0
                    /\ outcome' = IF operation = "generate"
                                  THEN ReturnOut(QueryList(run.out.value))
                                  ELSE run.out

\* A caller calls llm.chat_completion(...).
ChatCompletion(D) ==
    /\ pc = "idle"
    /\ \E a \in D.chat_args :
         \E answer \in Answers("chat_completion", a, D) :
           Settle("chat_completion", a, 1,
                  chat_completion(model_name, default_model_params, a, answer),
                  <<>>, <<>>, <<>>)

\* A caller calls llm.generate_search_queries(messages): the first execution.
GenerateSearchQueries(D) ==
    /\ pc = "idle"
    /\ \E messages \in D.histories :
         LET a == [chat_history |-> messages]
         IN  \E answer \in Answers("generate_search_queries", a, D) :
               Settle("generate_search_queries", a, 1,
                      generate_search_queries(model_name, a, answer),
                      <<>>, <<>>, <<>>)

\* A caller calls llm.enforced_function_call(messages, function).
EnforcedFunctionCall(D) ==
    /\ pc = "idle"
    /\ \E messages \in D.histories :
         Settle("enforced_function_call",
                [chat_history |-> messages, function |-> "query_knowledgebase"],
                1, enforced_function_call, <<>>, <<>>, <<>>)

\* A caller constructs CohereQueryGenerator(llm=...).
ConstructQueryGenerator ==
    /\ pc = "idle"
    /\ ~query_generator.constructed
    /\ \E llm \in LLMArguments : query_generator' = CohereQueryGenerator(llm)
    /\ UNCHANGED <<model_name, default_model_params, op, args, pc, attempt_number,
                   calls, backend, raised, outcome, vendor, iterator, pos, chunks>>

\* A caller calls query_generator.generate(messages, max_prompt_tokens): the
\* first execution of self._llm.generate_search_queries, or the failed lookup
\* of that method on an adapter that has none.
Generate(D) ==
    /\ pc = "idle"
    /\ query_generator.constructed
    /\ \E messages \in D.histories :
         LET a == [chat_history |-> messages]
         IN  IF HasSearchQueries(query_generator)
             THEN \E answer \in Answers("generate", a, D) :
                    Settle("generate", a, 1,
                           generate_search_queries(
                               GeneratorModelName(query_generator, model_name), a, answer),
                           <<>>, <<>>, <<>>)
             ELSE /\ op' = "generate"
                  /\ args' = a
                  /\ pc' = "done"
                  /\ attempt_number' = 0
                  /\ calls' = <<>>
                  /\ backend' = <<>>
                  /\ raised' = <<Error("AttributeError", "generate_search_queries")>>
                  /\ outcome' = RaiseOut(Error("AttributeError", "generate_search_queries"))
                  /\ vendor' = <<>>
                  /\ iterator' = "none"
                  /\ pos' = 0
                  /\ chunks' = <<>>
                  /\ UNCHANGED <<model_name, default_model_params, query_generator>>

\* The caller's list once map_messages has run over it: the loop reads each
\* message and appends to a new list, so the list is what it was.
MessagesAfterMapping(messages) == messages

\* A caller calls llm.map_messages(messages).
MapMessages(D) ==
    /\ pc = "idle"
    /\ \E messages \in D.histories :
         Settle("map_messages",
                [chat_history |-> MessagesAfterMapping(messages), passed |-> messages],
                1, Run(<<>>, <<>>, ReturnOut(map_messages(messages))),
                <<>>, <<>>, <<>>)

\* The retry wrapper executes the body again.
Retry(D) ==
    /\ pc = "retry"
    /\ \E answer \in Answers(op, args, D) :
         Settle(op, args, attempt_number + 1,
                Body(op,
                     IF op = "generate"
                     THEN GeneratorModelName(query_generator, model_name)
                     ELSE model_name,
                     default_model_params, args, answer),
                calls, backend, raised)

\* streaming_iterator: the index of the first event after `i` that yields a
\* chunk, or Len(events) + 1 when the stream ends first.
RECURSIVE NextYield(_, _)
NextYield(events, i) ==
    IF i + 1 > Len(events) THEN Len(events) + 1
    ELSE IF YieldsChunk(events[i + 1]) THEN i + 1
    ELSE NextYield(events, i + 1)

\* The consumer pulls the next chunk of the returned iterator.
Pull ==
    /\ pc = "done"
    /\ iterator = "suspended"
    /\ LET j == NextYield(vendor, pos)
       IN  IF j <= Len(vendor)
           THEN /\ pos' = j
                /\ chunks' = Append(chunks, StreamingChatChunk(model_name, vendor[j]))
                /\ iterator' = "suspended"
           ELSE /\ pos' = Len(vendor)
                /\ chunks' = chunks
                /\ iterator' = "exhausted"
    /\ UNCHANGED <<model_name, default_model_params, op, args, pc, attempt_number,
                   calls, backend, raised, outcome, vendor, query_generator>>

\* The caller is through with what the call gave it (an iterator not yet
\* exhausted is abandoned) and is ready for its next call.
Discard ==
    /\ pc = "done"
    /\ op' = "none"
    /\ args' = <<>>
    /\ pc' = "idle"
    /\ attempt_number' = 0
    /\ calls' = <<>>
    /\ backend' = <<>>
    /\ raised' = <<>>
    /\ outcome' = [kind |-> "none"]
    /\ vendor' = <<>>
    /\ iterator' = "none"
    /\ pos' = 0
    /\ chunks' = <<>>
    /\ UNCHANGED <<model_name, default_model_params, query_generator>>

\* CohereLLM.__init__(model_name, **kwargs)
InitWith(Defaults) ==
    /\ model_name = "command"
    /\ default_model_params \in Defaults
    /\ op = "none"
    /\ args = <<>>
    /\ pc = "idle"
    /\ attempt_number = 0
    /\ calls = <<>>
    /\ backend = <<>>
    /\ raised = <<>>
    /\ outcome = [kind |-> "none"]
    /\ vendor = <<>>
    /\ iterator = "none"
    /\ pos = 0
    /\ chunks = <<>>
    /\ query_generator = NoQueryGenerator

(***************************************************************************)
(* Specifications.                                                         *)
(***************************************************************************)
\* The history of the repository's tests: a user turn, then an assistant turn.
Msg(role, content) == [role |-> role, content |-> content]
TestMessages == <<Msg("user", "a"), Msg("assistant", "b")>>

ChatArgs(histories, contexts, streams, max_tokens, model_params) ==
    [system_prompt : {""}, chat_history : histories, context : contexts,
     stream : streams, max_tokens : max_tokens, model_params : model_params]

FewResponses == {ChatAnswer(<<"x">>, TokenCount), ChatAnswer(<<"x">>, EmptyDict)}
FewStreams == {StreamAnswer(<<StreamStart, TextGeneration(<<"x">>), StreamEnd>>)}
FewQueries == {QueriesAnswer(<<[text |-> "q1"]>>),
               QueriesAnswer(<<[generation_id |-> "g"]>>)}

\* Every history, with few answers.
Conversations ==
    [chat_args |-> ChatArgs(Histories, {NoContext}, BOOLEAN, {None}, {EmptyDict}),
     histories |-> Histories,
     errors |-> BackendErrors,
     responses |-> FewResponses,
     streams |-> FewStreams,
     queries |-> FewQueries]

Init == InitWith({EmptyDict})

Next ==
    \/ ChatCompletion(Conversations)
    \/ GenerateSearchQueries(Conversations)
    \/ Retry(Conversations)
    \/ EnforcedFunctionCall(Conversations)
    \/ MapMessages(Conversations)
    \/ Pull
    \/ Discard

Spec == Init /\ [][Next]_vars

\* Every context, with the test history and a few more.
FewHistories == {TestMessages,
                 <<>>,
                 <<Msg("user", "")>>,
                 <<Msg("system", "a"), Msg("user", "")>>}

WithContext ==
    [chat_args |-> ChatArgs(FewHistories, Contexts, BOOLEAN, {None}, {EmptyDict}),
     histories |-> {},
     errors |-> BackendErrors,
     responses |-> FewResponses,
     streams |-> FewStreams,
     queries |-> {}]

NextContext ==
    \/ ChatCompletion(WithContext)
    \/ Pull
    \/ Discard

SpecContext == Init /\ [][NextContext]_vars

\* Every generation option, on an adapter constructed with any defaults.
WithParams ==
    [chat_args |-> ChatArgs({TestMessages, <<>>}, {NoContext}, BOOLEAN,
                            {None} \cup {Some(m) : m \in 1..MaxTokens}, ParamDicts),
     histories |-> {TestMessages, <<>>},
     errors |-> BackendErrors,
     responses |-> FewResponses,
     streams |-> FewStreams,
     queries |-> FewQueries]

InitParams == InitWith(ParamDicts)

NextParams ==
    \/ ChatCompletion(WithParams)
    \/ GenerateSearchQueries(WithParams)
    \/ Retry(WithParams)
    \/ Pull
    \/ Discard

SpecParams == InitParams /\ [][NextParams]_vars

\* Every vendor stream.
Events == {TextGeneration(<<"x">>), TextGeneration(<<"y">>), TextGeneration(<<>>),
           StreamStart, StreamEnd}

Streaming ==
    [chat_args |-> ChatArgs({TestMessages}, {NoContext}, BOOLEAN, {None}, {EmptyDict}),
     histories |-> {},
     errors |-> BackendErrors,
     responses |-> {ChatAnswer(text, token_count) :
                       text \in SeqsUpTo(Tokens, MaxText),
                       token_count \in {TokenCount, EmptyDict}},
     streams |-> {StreamAnswer(events) : events \in SeqsUpTo(Events, MaxEvents)},
     queries |-> {}]

NextStream ==
    \/ ChatCompletion(Streaming)
    \/ Pull
    \/ Discard

SpecStream == Init /\ [][NextStream]_vars

\* Every search-queries answer, through the query generator.
QueryEntries == {[text |-> "q1"], [text |-> "q2"], [generation_id |-> "g"]}

Generating ==
    [chat_args |-> {},
     histories |-> {TestMessages, <<Msg("user", "")>>},
     errors |-> BackendErrors,
     responses |-> {},
     streams |-> {},
     queries |-> {QueriesAnswer(q) : q \in SeqsUpTo(QueryEntries, MaxQueries)}]

NextQueries ==
    \/ ConstructQueryGenerator
    \/ Generate(Generating)
    \/ Retry(Generating)
    \/ Discard

SpecQueries == Init /\ [][NextQueries]_vars

(***************************************************************************)
(* Properties.                                                             *)
(***************************************************************************)
Chat == op = "chat_completion"
Queries == op = "generate_search_queries"

\* The messages of a history that have content, in conversation order.
NonEmpty(history) == SelectSeq(history, LAMBDA m : m.content # "")
AllEmpty(history) == \A i \in 1..Len(history) : history[i].content = ""

\* C1: a chat_completion on a history whose messages all have empty content
\* (the empty history included) fails with the vendor's CohereAPIError and
\* hands no request to the vendor client.
C1_EmptyHistoryRejected ==
    (Chat /\ AllEmpty(args.chat_history))
        => /\ pc = "done"
           /\ outcome.kind = "raise"
           /\ outcome.error.type = "CohereAPIError"
           /\ calls = <<>>

C1_Witness ==
    /\ Chat /\ pc = "done"
    /\ Len(args.chat_history) = 2
    /\ AllEmpty(args.chat_history)
    /\ outcome = RaiseOut(Error("CohereAPIError", "No message provided"))

Parseable(answer) ==
    /\ answer.kind = "queries"
    /\ \A i \in 1..Len(answer.search_queries) : "text" \in DOMAIN answer.search_queries[i]

QueryTexts(answer) ==
    [i \in 1..Len(answer.search_queries) |-> answer.search_queries[i].text]

FailedFirst(k) == \A i \in 1..k : backend[i].kind = "error"

\* C5: generate_search_queries whose backend fails k < 3 times and then
\* succeeds goes on to attempt k+1, returns that attempt's result, and has
\* made exactly k+1 requests: none after the first success.
C5_RetryUntilSuccess ==
    Queries =>
        \A k \in 0..(MaxAttempts - 1) :
            /\ (k >= 1 /\ Len(backend) = k /\ FailedFirst(k)) => pc = "retry"
            /\ (Len(backend) > k /\ FailedFirst(k) /\ Parseable(backend[k + 1]))
                   => /\ pc = "done"
                      /\ outcome = ReturnOut(QueryTexts(backend[k + 1]))
                      /\ Len(backend) = k + 1
                      /\ Len(calls) = k + 1
                      /\ attempt_number = k + 1

C5_Witness ==
    /\ Queries /\ pc = "done"
    /\ Len(calls) = 3
    /\ FailedFirst(2)
    /\ Parseable(backend[3])
    /\ outcome = ReturnOut(<<"q1">>)

\* C6: generate_search_queries whose backend fails three times in a row ends
\* after exactly three attempts, and the caller gets the exception of the
\* third attempt itself, not a retry-specific wrapper of it.
C6_RetryExhausted ==
    Queries =>
        /\ attempt_number <= MaxAttempts
        /\ Len(calls) <= MaxAttempts
        /\ (Len(backend) >= MaxAttempts /\ FailedFirst(MaxAttempts))
               => /\ pc = "done"
                  /\ attempt_number = MaxAttempts
                  /\ Len(calls) = MaxAttempts
                  /\ outcome = RaiseOut(backend[MaxAttempts].error)

C6_Witness ==
    /\ Queries /\ pc = "done"
    /\ Len(backend) = 3
    /\ FailedFirst(3)
    /\ backend[1].error # backend[3].error
    /\ outcome = RaiseOut(backend[3].error)

\* C7: no request handed to the vendor client, by chat_completion or by
\* generate_search_queries, holds a message with empty content: not as the
\* current-turn message, not in the history payload.
C7_NoEmptyMessageForwarded ==
    \A i \in 1..Len(calls) :
        /\ calls[i].message # ""
        /\ \A j \in 1..Len(calls[i].chat_history) : calls[i].chat_history[j].message # ""

C7_Witness ==
    /\ Queries
    /\ Len(calls) = 1
    /\ Len(args.chat_history) = 2
    /\ args.chat_history[2].content = ""
    /\ calls[1].message = "a"

C2_UnsupportedContextRejected ==
    (Chat /\ ~AllEmpty(args.chat_history))
        => /\ (args.context.kind = "unsupported")
                  => /\ outcome.kind = "raise"
                     /\ outcome.error.type = "NotImplementedError"
           /\ (args.context.kind # "none")
                  => \A i \in 1..Len(calls) : "documents" \in DOMAIN calls[i]

\* The {source, text} pairs of a context's snippets, in snippet order.
Documents(context) ==
    [i \in 1..Len(context.snippets) |->
        [source |-> context.snippets[i].source, text |-> context.snippets[i].text]]

\* C3: a chat_completion with a context exposing structured snippets sends one
\* request, whose documents field lists one {source, text} pair per snippet,
\* in snippet order.
C3_SnippetsSentAsDocuments ==
    (Chat /\ ~AllEmpty(args.chat_history) /\ args.context.kind = "stuffing")
        => /\ Len(calls) = 1
           /\ "documents" \in DOMAIN calls[1]
           /\ calls[1].documents = Documents(args.context)

\* The cap on the generated length a call's options give, if they give one:
\* as max_tokens, or as the model_params key max_tokens.
GivenCap(a) ==
    IF a.max_tokens # None THEN a.max_tokens
    ELSE PopValue(a.model_params, "max_tokens")

\* C9: a chat_completion whose options cap the generated length at m, given as
\* max_tokens or as the model_params key max_tokens, sends a request that
\* carries max_tokens = m.
C9_MaxTokensForwarded ==
    (Chat /\ ~AllEmpty(args.chat_history) /\ GivenCap(args) # None
          /\ (args.max_tokens = None \/ "max_tokens" \notin DOMAIN args.model_params)
          /\ "max_tokens" \notin DOMAIN default_model_params)
        => /\ Len(calls) = 1
           /\ calls[1].max_tokens = GivenCap(args)

\* The text-generation events among the first n events of a stream.
ContentEvents(events, n) ==
    SelectSeq(SubSeq(events, 1, n), LAMBDA e : e.event_type = "text-generation")

\* C10: the chunks of a streamed chat_completion are, one for one and in
\* backend order, the text-generation events read from the vendor stream:
\* each chunk has that event's text as delta.content and no finish_reason,
\* other events yield no chunk, and an exhausted iterator has read them all.
C10_ChunksFollowContentEvents ==
    (iterator # "none") =>
        LET content == ContentEvents(vendor, pos)
        IN  /\ Len(chunks) = Len(content)
            /\ \A i \in 1..Len(chunks) :
                 /\ Len(chunks[i].choices) = 1
                 /\ chunks[i].choices[1].delta.content = content[i].text
                 /\ chunks[i].choices[1].finish_reason = None
            /\ (iterator = "exhausted") => pos = Len(vendor)

C10_Witness ==
    /\ iterator = "exhausted"
    /\ vendor = <<TextGeneration(<<"x">>), StreamStart, TextGeneration(<<"y">>)>>
    /\ Len(chunks) = 2
    /\ chunks[1].choices[1].delta.content = <<"x">>
    /\ chunks[2].choices[1].delta.content = <<"y">>

HasTerminalEvent(events) == \E i \in 1..Len(events) : events[i].event_type = "stream-end"

\* C11 as stated: when the vendor stream has delivered its terminal event, the
\* iterator has emitted a final chunk whose finish_reason is set, and then ends.
C11_FinalChunkHasFinishReason ==
    (iterator = "exhausted" /\ HasTerminalEvent(vendor))
        => /\ chunks # <<>>
           /\ chunks[Len(chunks)].choices[1].finish_reason # None

\* C11, amended: the vendor's terminal event yields no chunk (the iterator is
\* never suspended on it and every chunk has a null finish_reason); the
\* sequence ends when the vendor stream is exhausted, and an exhausted
\* iterator emits no further chunk.
C11_TerminalEventYieldsNoChunk ==
    /\ [](iterator # "none" =>
            /\ \A i \in 1..Len(chunks) : chunks[i].choices[1].finish_reason = None
            /\ (iterator = "suspended" /\ pos > 0)
                   => vendor[pos].event_type # "stream-end"
            /\ (iterator = "exhausted") => pos = Len(vendor))
    /\ [][(iterator = "exhausted" /\ iterator' # "none")
              => (iterator' = "exhausted" /\ chunks' = chunks /\ pos' = pos)]_vars

C11_Witness ==
    /\ iterator = "exhausted"
    /\ vendor = <<TextGeneration(<<"x">>), StreamEnd>>
    /\ Len(chunks) = 1
    /\ chunks[1].choices[1].finish_reason = None

\* C12: the streamed sequence is pull-driven.  Vendor events are read only by
\* a pull of the consumer; a pull reads no further than the event whose chunk
\* it yields; and abandoning an iterator before its end reads nothing more
\* and raises nothing.
C12_PullDriven ==
    /\ [](iterator = "suspended" =>
            /\ (chunks = <<>>) => pos = 0
            /\ (chunks # <<>>)
                   => /\ pos >= 1
                      /\ vendor[pos].event_type = "text-generation"
                      /\ chunks[Len(chunks)].choices[1].delta.content = vendor[pos].text
                      /\ Len(chunks) = Len(ContentEvents(vendor, pos)))
    /\ [][/\ (pos' # pos /\ pos' # 0) => Pull
          /\ (iterator = "suspended" /\ iterator' = "none")
                 => (pos' = 0 /\ raised' = <<>> /\ outcome'.kind = "none")]_vars

C12_Witness ==
    /\ iterator = "suspended"
    /\ Len(vendor) = 3
    /\ pos = 1
    /\ Len(chunks) = 1
    /\ vendor[3].event_type = "text-generation"

\* C13: no call changes the adapter's configuration.  Over any sequence of
\* chat_completion and generate_search_queries calls, with any model_params
\* (overriding default keys, carrying connectors), model_name and
\* default_model_params stay what the constructor stored.
C13_ConfigurationNeverMutated ==
    [][model_name' = model_name /\ default_model_params' = default_model_params]_vars

C13_Witness ==
    /\ Chat /\ pc = "done"
    /\ default_model_params = [temperature |-> 1]
    /\ args.model_params = [temperature |-> 2, connectors |-> <<"web-search">>]
    /\ Len(calls) = 1
    /\ calls[1].temperature = 2
    /\ calls[1].connectors = Some(<<[id |-> "web-search"]>>)

\* C14: enforced_function_call on the Cohere adapter, which has no function
\* calling, ends in a NotImplementedError raised to the caller, never in a
\* normal return of a value.
C14_FunctionCallRaisesNotImplemented ==
    (op = "enforced_function_call")
        => /\ outcome.kind = "raise"
           /\ outcome.error.type = "NotImplementedError"

\* C15: a query generator is constructed only over an adapter that supports
\* generate_search_queries; on any other adapter the construction fails, so no
\* generator exists whose generate is the first to find the mismatch.
C15_UnsupportedAdapterRejectedAtConstruction ==
    /\ query_generator.constructed => HasSearchQueries(query_generator)
    /\ (op = "generate" /\ pc = "done" /\ outcome.kind = "raise")
           => outcome.error.type # "AttributeError"

\* C19: generate returns one Query per search query of the backend's
\* response, in the response's order, each with the backend's query text.
C19_QueriesInBackendOrder ==
    (op = "generate" /\ backend # <<>> /\ Parseable(backend[Len(backend)]))
        => /\ pc = "done"
           /\ outcome.kind = "return"
           /\ Len(outcome.value) = Len(backend[Len(backend)].search_queries)
           /\ \A i \in 1..Len(outcome.value) :
                outcome.value[i] = [text |-> backend[Len(backend)].search_queries[i].text]

C19_Witness ==
    /\ op = "generate" /\ pc = "done"
    /\ Len(calls) = 2
    /\ backend[2] = QueriesAnswer(<<[text |-> "q2"], [text |-> "q1"]>>)
    /\ outcome = ReturnOut(<<[text |-> "q2"], [text |-> "q1"]>>)

\* C16: a response that cannot be parsed into queries is never retried: when
\* the backend answers generate_search_queries with a search-query entry that
\* has no text, the error reaches the caller after exactly one request.
C16_MalformedResponseNotRetried ==
    (Queries /\ backend # <<>> /\ backend[1].kind = "queries" /\ ~Parseable(backend[1]))
        => /\ pc = "done"
           /\ Len(calls) = 1
           /\ outcome.kind = "raise"

\* C17: generate_search_queries on a history that is empty once the empty
\* messages are dropped fails at once: its body runs a single time, no request
\* is sent, and the error is the adapter's native CohereAPIError.
C17_EmptyHistoryNotRetried ==
    (Queries /\ AllEmpty(args.chat_history))
        => /\ pc = "done"
           /\ attempt_number = 1
           /\ calls = <<>>
           /\ outcome.kind = "raise"
           /\ outcome.error.type = "CohereAPIError"

\* C18: a non-streamed chat_completion that succeeds returns a ChatResponse
\* with exactly one choice, at index 0, whose message has the role assistant
\* and the backend's response text, unchanged, as its content.
C18_SingleChoiceWithBackendText ==
    /\ (Chat /\ pc = "done" /\ outcome.kind = "return")
           => /\ Len(outcome.value.choices) = 1
              /\ outcome.value.choices[1].index = 0
              /\ outcome.value.choices[1].message.role = "assistant"
              /\ outcome.value.choices[1].message.content = backend[1].text
    /\ (Chat /\ ~args.stream /\ backend # <<>> /\ backend[1].kind = "response"
             /\ backend[1].token_count = TokenCount)
           => outcome.kind = "return"

C18_Witness ==
    /\ Chat /\ pc = "done"
    /\ backend[1] = ChatAnswer(<<"x", "y">>, TokenCount)
    /\ outcome.kind = "return"
    /\ outcome.value.choices[1].message.content = <<"x", "y">>

\* C20: map_messages maps each non-empty message, in order, to a message with
\* the same content and the role CHATBOT if its role is assistant, USER if it
\* is any other role (user, system), and leaves the list it was given as it
\* was.
C20_RolesMapped ==
    (op = "map_messages") =>
        LET kept == NonEmpty(args.passed)
        IN  /\ outcome.kind = "return"
            /\ Len(outcome.value) = Len(kept)
            /\ \A i \in 1..Len(kept) :
                 /\ outcome.value[i].message = kept[i].content
                 /\ kept[i].role = "assistant" => outcome.value[i].role = "CHATBOT"
                 /\ kept[i].role \in {"user", "system"} => outcome.value[i].role = "USER"
            /\ args.chat_history = args.passed

C20_Witness ==
    /\ op = "map_messages"
    /\ args.passed = <<Msg("system", "a"), Msg("assistant", "b")>>
    /\ outcome = ReturnOut(<<[role |-> "USER", message |-> "a"],
                             [role |-> "CHATBOT", message |-> "b"]>>)

\* The concatenation of a sequence of texts.
RECURSIVE Concatenated(_)
Concatenated(texts) ==
    IF texts = <<>> THEN <<>> ELSE Head(texts) \o Concatenated(Tail(texts))

\* What the content events of a vendor stream spell, concatenated.
SpelledText(events) ==
    LET content == ContentEvents(events, Len(events))
    IN  Concatenated([i \in 1..Len(content) |-> content[i].text])

\* delta.content of each chunk, in the order the chunks were yielded.
DeltaContents(yielded) ==
    [i \in 1..Len(yielded) |-> yielded[i].choices[1].delta.content]

\* The non-streaming chat_completion for the input of the streaming call in
\* progress, the deterministic backend answering with the text its stream
\* spells.
NonStreamingRun ==
    chat_completion(model_name, default_model_params,
                    [args EXCEPT !.stream = FALSE],
                    ChatAnswer(SpelledText(vendor), TokenCount))

\* C21: once a streamed chat_completion has been consumed to its end, the
\* delta.content of its chunks, concatenated, is the content of choices[0] of
\* the non-streaming chat_completion for the same input, the backend returning
\* to that request the text its content events spell; the two requests differ
\* in the stream flag only.
C21_StreamedEqualsNonStreamed ==
    (Chat /\ iterator = "exhausted") =>
        /\ NonStreamingRun.out.kind = "return"
        /\ Concatenated(DeltaContents(chunks))
               = NonStreamingRun.out.value.choices[1].message.content
        /\ Len(NonStreamingRun.sent) = 1
        /\ NonStreamingRun.sent[1] = [calls[1] EXCEPT !.stream = FALSE]

C21_Witness ==
    /\ Chat /\ iterator = "exhausted"
    /\ vendor = <<TextGeneration(<<"y">>), StreamStart, TextGeneration(<<"x">>)>>
    /\ Concatenated(DeltaContents(chunks)) = <<"y", "x">>
    /\ NonStreamingRun.out.value.choices[1].message.content = <<"y", "x">>

\* C22: a chat_completion with stream=True sends its one request in the call
\* itself.  When the call has returned an iterator the vendor client has that
\* request, whether or not anything was pulled; a failure of the request is
\* the call's own exception, and no iterator is returned; a pull sends
\* nothing; and an iterator abandoned unconsumed leaves the request sent.
C22_StreamRequestSentAtCall ==
    /\ []((Chat /\ args.stream /\ pc = "done") =>
            /\ Len(calls) <= 1
            /\ (outcome.kind = "stream")
                   => /\ Len(calls) = 1
                      /\ calls[1].stream = TRUE
                      /\ backend = <<StreamAnswer(vendor)>>
            /\ (backend # <<>> /\ backend[1].kind = "error")
                   => /\ Len(calls) = 1
                      /\ outcome = RaiseOut(backend[1].error)
                      /\ iterator = "none"
                      /\ chunks = <<>>)
    /\ [][/\ (iterator = "suspended" /\ iterator' # "none")
                 => (calls' = calls /\ backend' = backend)
          /\ (iterator = "suspended" /\ pos = 0 /\ iterator' = "none")
                 => (Len(calls) = 1 /\ calls[1].stream = TRUE)]_vars

C22_Witness ==
    /\ Chat /\ args.stream /\ pc = "done"
    /\ outcome.kind = "stream"
    /\ iterator = "suspended" /\ pos = 0 /\ chunks = <<>>
    /\ Len(vendor) = 3
    /\ Len(calls) = 1
    /\ calls[1].stream = TRUE
====
